---- MODULE Spec2Model ----
(***************************************************************************)
(* Google-Sheets lead synchronisation of LeadsManager.                     *)
(*                                                                         *)
(* Three entry points write leads from a spreadsheet tab into the lead     *)
(* table and keep a per-campaign cursor:                                   *)
(*   - app.py  sync_campaign(campaign_id)      (on-demand HTTP trigger)    *)
(*   - app.py  sync_all_campaigns()            (HTTP sweep)                *)
(*   - sync_campaigns.py  main()/sync_campaign (scheduled job)             *)
(*                                                                         *)
(* Cell texts are sequences of one-character strings, so that the string   *)
(* operations of the code (strip, replace) are computed, not assumed.      *)
(* The database is PostgreSQL through psycopg2 with autocommit switched    *)
(* off (database.py:49): every run works in one transaction, sees its own  *)
(* uncommitted rows, and a statement that fails at the server leaves the   *)
(* transaction aborted: every later statement of that transaction raises   *)
(* until a rollback, and the code never rolls back inside the row loop.    *)
(***************************************************************************)
EXTENDS Integers, Sequences, FiniteSets, TLC

VARIABLES campaigns,   \* campaigns table: id -> [last_synced_row, last_synced_at, last_sync_at]
          leads,       \* leads table, committed rows; the SERIAL id is the position
          activities,  \* lead_activities table, committed rows
          sheet,       \* the spreadsheet tab whose content changes (external)
          clock,       \* CURRENT_TIMESTAMP, one tick per invocation
          last,        \* the response of the last invocation and what it did
          procs        \* the sync runs in flight, when runs may overlap

vars == <<campaigns, leads, activities, sheet, clock, last, procs>>

(***************************************************************************)
(* Bounds                                                                  *)
(***************************************************************************)
MaxRows == 2      \* data rows of the changing tab
MaxRuns == 2      \* sync invocations in one behaviour

(***************************************************************************)
(* Python strings                                                          *)
(***************************************************************************)
NULL == <<"NULL">>          \* SQL NULL / Python None in a text column
Unknown == <<"Unknown">>    \* the literal 'Unknown'
NUL == "NUL"                \* a 0x00 character inside a cell

Truthy(s) == Len(s) > 0

RECURSIVE LStrip(_)
LStrip(s) == IF Len(s) > 0 /\ Head(s) = " " THEN LStrip(Tail(s)) ELSE s

RECURSIVE RStrip(_)
RStrip(s) == IF Len(s) > 0 /\ s[Len(s)] = " " THEN RStrip(SubSeq(s, 1, Len(s) - 1)) ELSE s

Strip(s) == RStrip(LStrip(s))

Replace(s, ch) == SelectSeq(s, LAMBDA x : x # ch)

CleanPhone(phone) ==
    IF Truthy(phone) THEN Replace(Replace(Strip(phone), "-"), " ") ELSE phone

\* psycopg2 refuses to adapt a string holding a NUL character: cur.execute
\* raises ValueError before anything is sent to the server.
BadParam(s) == \E i \in 1..Len(s) : s[i] = NUL

(***************************************************************************)
(* Rows of a fetched tab (csv.DictReader): the cells under the name, phone *)
(* and email headers, and one cell under a header the code does not map.   *)
(***************************************************************************)
Row(n, p, e, o) == [name |-> n, phone |-> p, email |-> e, other |-> o]

RowShapes ==
    { Row(<<"A">>, <<"5", "2">>, <<>>, <<>>),               \* name and phone
      Row(<<"B">>, <<"5", "-", "2">>, <<"b", "@", "x">>, <<>>),   \* same phone, punctuated
      Row(<<"D">>, <<>>, <<>>, <<>>),                       \* name only
      Row(<<>>, <<>>, <<>>, <<>>),                          \* every cell empty
      Row(<<"E">>, <<"7", NUL>>, <<>>, <<>>) }              \* malformed phone cell

AnyCell(row) ==
    Truthy(row.name) \/ Truthy(row.phone) \/ Truthy(row.email) \/ Truthy(row.other)

(***************************************************************************)
(* Campaign configuration (set by an administrator, not changed by sync)   *)
(***************************************************************************)
\* A stored sheet_url: whether the column holds any text, the document id
\* that follows "/d/" ("" when there is none) and the digits that follow
\* "gid=" ("" when there are none).
Url(t, d, g) == [text |-> t, doc |-> d, gid |-> g]

CampaignIds == 1..6
NoSuchId == 9

Config ==
    [c \in CampaignIds |->
       CASE c = 1 -> [customer_id |-> 1, campaign_name |-> "K1", sheet_id |-> "S1",
                      sheet_url |-> Url(TRUE, "S1", ""), active |-> TRUE,
                      column_mapping |-> TRUE]
         [] c = 2 -> [customer_id |-> 1, campaign_name |-> "K2", sheet_id |-> "S2",
                      sheet_url |-> Url(TRUE, "S2", "7"), active |-> TRUE,
                      column_mapping |-> TRUE]
         [] c = 3 -> [customer_id |-> 2, campaign_name |-> "K3", sheet_id |-> "S3",
                      sheet_url |-> Url(TRUE, "", ""), active |-> TRUE,
                      column_mapping |-> TRUE]
         [] c = 4 -> [customer_id |-> 2, campaign_name |-> "K4", sheet_id |-> "S4",
                      sheet_url |-> Url(TRUE, "S4", ""), active |-> TRUE,
                      column_mapping |-> TRUE]
         [] c = 5 -> [customer_id |-> 2, campaign_name |-> "K5", sheet_id |-> "S5",
                      sheet_url |-> Url(TRUE, "S5", ""), active |-> FALSE,
                      column_mapping |-> TRUE]
         [] c = 6 -> [customer_id |-> 2, campaign_name |-> "K6", sheet_id |-> "S6",
                      sheet_url |-> Url(FALSE, "", ""), active |-> TRUE,
                      column_mapping |-> TRUE]]

\* re.search(r'/d/([a-zA-Z0-9-_]+)', sheet_url)
SheetIdMatch(url) == url.doc # ""
\* gid_match.group(1) if gid_match else '0'
GidOf(url) == IF url.gid # "" THEN url.gid ELSE "0"
GidKey(gid) == IF gid = "0" THEN "gid_0" ELSE "gid_7"
GidKeys == {"gid_0", "gid_7"}

\* Tabs that are not edited in this model keep one content.
TabS2Gid7 ==
    << Row(<<>>, <<>>, <<>>, <<"o">>),                          \* no target field
       Row(<<"F">>, <<" ", "5", "2">>, <<"f", "@", "x">>, <<"o">>),
       Row(<<"P">>, <<"+", "5", "2">>, <<>>, <<>>),              \* phone with '+'
       Row(<<"H">>, <<>>, <<"b", "@", "x", ".">>, <<>>) >>       \* email with a dot
TabS2First ==
    << Row(<<>>, <<>>, <<>>, <<"o">>),
       Row(<<"G">>, <<>>, <<"g", "@", "x">>, <<>>),
       Row(<<>>, <<"5", "-", "2">>, <<>>, <<>>) >>               \* phone, no name

\* The tab of another tenant, with the contacts of rows of the first tenant.
TabS4 == << Row(<<"Q">>, <<"5", "2">>, <<"b", "@", "x">>, <<>>) >>
\* The tab of the campaign that is not active.
TabS5 == << Row(<<"R">>, <<"9">>, <<>>, <<>>) >>

\* The export endpoint: content of (document, gid).
Export(doc, gid, sh) ==
    CASE doc = "S1" /\ gid = "0" -> sh
      [] doc = "S2" /\ gid = "7" -> TabS2Gid7
      [] doc = "S2" /\ gid = "0" -> TabS2First
      [] doc = "S4" /\ gid = "0" -> TabS4
      [] doc = "S5" /\ gid = "0" -> TabS5
      [] OTHER -> <<>>

(***************************************************************************)
(* The cursor column campaigns.last_synced_row: a JSON object (tab key ->  *)
(* row, 0 standing for "key absent") or a bare integer.                    *)
(***************************************************************************)
EmptyMap == [k \in GidKeys |-> 0]
MapCursor(m) == [kind |-> "map", n |-> 0, m |-> m]
IntCursor(n) == [kind |-> "int", n |-> n, m |-> EmptyMap]

\* (mutant) the old INTEGER format is read as an empty map
MutLastSyncedDataDropsInt(v) == IF v.kind = "int" THEN EmptyMap ELSE v.m

\* app.py: campaign.get('last_synced_row') or {}, then the conversion of the
\* old INTEGER format.
LastSyncedData(v) ==
    IF v.kind = "int"
    THEN (IF v.n > 1 THEN [EmptyMap EXCEPT !["gid_0"] = v.n] ELSE EmptyMap)
    ELSE v.m

\* last_synced_data.get(gid_key, 1)
GetCursor(v, key) == LET d == LastSyncedData(v) IN IF d[key] = 0 THEN 1 ELSE d[key]

(***************************************************************************)
(* Tables                                                                  *)
(***************************************************************************)
NullStr == "NULL"     \* SQL NULL in the campaign / campaign_name columns

Database(c, l, a) == [campaigns |-> c, leads |-> l, activities |-> a]

\* The lookup by email alone.
MutDuplicateCheckEmailOnly(lds, customer_id, phone, email) ==
    \E i \in 1..Len(lds) :
        /\ lds[i].customer_id = customer_id
        /\ lds[i].email # NULL /\ lds[i].email = email

\* The lookup without the customer_id test.
MutDuplicateCheckAnyTenant(lds, customer_id, phone, email) ==
    \E i \in 1..Len(lds) :
        \/ lds[i].phone # NULL /\ lds[i].phone = phone
        \/ lds[i].email # NULL /\ lds[i].email = email

\* SELECT id FROM leads WHERE customer_id = %s AND ((phone IS NOT NULL AND
\* phone = %s) OR (email IS NOT NULL AND email = %s)) LIMIT 1
DuplicateCheck(lds, customer_id, phone, email) ==
    \E i \in 1..Len(lds) :
        /\ lds[i].customer_id = customer_id
        /\ \/ lds[i].phone # NULL /\ lds[i].phone = phone
           \/ lds[i].email # NULL /\ lds[i].email = email

\* SELECT id FROM leads WHERE customer_id = %s AND campaign_name = %s AND
\* raw_data->>'row_number' = %s AND raw_data->>'sheet_id' = %s LIMIT 1
ExistingByRow(lds, customer_id, campaign_name, row_number, sheet_id) ==
    \E i \in 1..Len(lds) :
        /\ lds[i].customer_id = customer_id
        /\ lds[i].campaign_name = campaign_name
        /\ lds[i].row_number = row_number
        /\ lds[i].sheet_id = sheet_id

\* value if value else None
OrNone(s) == IF Truthy(s) THEN s ELSE NULL

(***************************************************************************)
(* The transaction of one run: the tables as the run sees them, the        *)
(* counters of the loop, and what the loop did with each row.              *)
(***************************************************************************)
Begin(db, cursor) ==
    [leads |-> db.leads, activities |-> db.activities,
     new_leads |-> 0, duplicates |-> 0, errors |-> 0,
     aborted |-> FALSE, broke |-> FALSE, max_row_processed |-> cursor,
     trace |-> <<>>, counts |-> <<>>, lookups |-> <<>>]

\* The counters and the sizes of the tables as the run sees them.
Snapshot(tx) ==
    [new_leads |-> tx.new_leads, duplicates |-> tx.duplicates, errors |-> tx.errors,
     leads |-> Len(tx.leads), activities |-> Len(tx.activities)]

\* The end of one iteration of the row loop: what was done with the row, and
\* the counters after it.
Note(tx, what) ==
    [tx EXCEPT !.trace = Append(@, what), !.counts = Append(@, Snapshot(tx))]

\* cur.execute(duplicate_check_sql, (customer_id, phone or '', email or ''))
\* is called for the row.
Looked(tx, current_row, phone, email) ==
    [tx EXCEPT !.lookups = Append(@, [by |-> "contact", row |-> current_row,
                                      phone |-> phone, email |-> email])]

\* sync_campaigns.py: the SELECT by raw_data->>'row_number' is called.
LookedByRow(tx, current_row) ==
    [tx EXCEPT !.lookups = Append(@, [by |-> "row", row |-> current_row,
                                      phone |-> <<>>, email |-> <<>>])]

\* (mutant) the row at the cursor is evaluated again
MutBehindStrict(current_row, last_synced_row) == current_row < last_synced_row

\* if current_row <= last_synced_row: continue
Behind(current_row, last_synced_row) == current_row <= last_synced_row

\* except Exception as row_error: errors += 1; continue
\* atServer: the statement failed at the server, the transaction is aborted.
RowError(tx, atServer) ==
    Note([tx EXCEPT !.errors = @ + 1, !.aborted = @ \/ atServer], "error")

Duplicate(tx) == Note([tx EXCEPT !.duplicates = @ + 1], "duplicate")

(***************************************************************************)
(* app.py: the body of "for row_data in reader" of sync_campaign and of    *)
(* sync_all_campaigns (the same code twice).  fails: the first statement   *)
(* this row sends fails at the server.                                     *)
(***************************************************************************)
\* (mutant) only rows without any cell are skipped
MutRejectsNothing(name, phone, email) == FALSE

\* if not name and not phone and not email: continue
AppRejects(name, phone, email) == ~Truthy(name) /\ ~Truthy(phone) /\ ~Truthy(email)

AppInsert(tx, cfg, name, phone, email, current_row) ==
    LET lead == [customer_id |-> cfg.customer_id,
                 name |-> IF Truthy(name) THEN name ELSE Unknown,
                 email |-> OrNone(email), phone |-> OrNone(phone),
                 campaign |-> cfg.campaign_name, campaign_name |-> NullStr,
                 row_number |-> current_row, sheet_id |-> cfg.sheet_id]
        lead_id == Len(tx.leads) + 1
        activity == [lead_id |-> lead_id, customer_id |-> cfg.customer_id,
                     campaign_name |-> cfg.campaign_name, row |-> current_row]
    IN  Note([tx EXCEPT !.leads = Append(@, lead),
                        !.activities = Append(@, activity),
                        !.new_leads = @ + 1], "inserted")

AppRow(tx, row_data, current_row, last_synced_row, cfg, fails) ==
    IF Behind(current_row, last_synced_row) THEN Note(tx, "behind")
    ELSE IF ~AnyCell(row_data) THEN Note(tx, "empty")
    ELSE LET name == row_data.name
             phone == CleanPhone(row_data.phone)
             email == row_data.email
             looked == Looked(tx, current_row, phone, email)
         IN  IF AppRejects(name, phone, email)
             THEN Note(tx, "rejected")
             ELSE IF BadParam(phone) \/ BadParam(email) THEN RowError(looked, FALSE)
             ELSE IF tx.aborted \/ fails THEN RowError(looked, TRUE)
             ELSE IF DuplicateCheck(tx.leads, cfg.customer_id, phone, email)
             THEN Duplicate(looked)
             ELSE IF BadParam(name) THEN RowError(looked, FALSE)
             ELSE AppInsert(looked, cfg, name, phone, email, current_row)

\* current_row = 1 before the loop, += 1 at the top of every iteration
\* (x \in {e} binds x to the value of e: each assignment of the code is
\* evaluated once, before what follows it)
RECURSIVE AppLoop(_, _, _, _, _, _)
AppLoop(tx, rows, i, last_synced_row, cfg, failRow) ==
    IF i > Len(rows) THEN tx
    ELSE CHOOSE tail \in { AppLoop(next, rows, i + 1, last_synced_row, cfg, failRow) :
                            next \in {AppRow(tx, rows[i], i + 1, last_synced_row, cfg, failRow = i)} } : TRUE

(***************************************************************************)
(* Disturbances of one run, chosen by the environment                      *)
(***************************************************************************)
Dist(k, r) == [kind |-> k, row |-> r]
Calm == Dist("none", 0)
NoConn == Dist("conn", 0)       \* get_db_connection() returns None
NoFetch == Dist("fetch", 0)     \* requests.get / raise_for_status raises
DbFail(r) == Dist("db", r)      \* the first statement of data row r fails

Response(ok, st, n, d, e, row, err) ==
    [success |-> ok, status |-> st, new_leads |-> n, duplicates |-> d,
     errors |-> e, last_synced_row |-> row, error |-> err]

Failure(st, err) == Response(FALSE, st, 0, 0, 0, 0, err)

\* What one run did: the response, the tables it leaves, and the record of
\* its rows.  pre is the stored cursor value the run started from.
Outcome(db, res, tx, pre, fetched) ==
    [db |-> db, result |-> res, trace |-> tx.trace, counts |-> tx.counts,
     lookups |-> tx.lookups, pre |-> pre, fetched |-> fetched]

Nothing(db) == Begin(db, 0)

(***************************************************************************)
(* app.py: from the fetch to the commit (sync_campaign 3543-3700,          *)
(* sync_all_campaigns 3793-3920)                                           *)
(***************************************************************************)
\* (mutant) the rows written before the exception are kept
MutCommitted(db, tx) == Database(db.campaigns, tx.leads, tx.activities)

\* An exception leaves the handler before conn.commit(): the tables keep
\* their committed content.
Uncommitted(db, tx) == db

\* (mutant) a failed fetch still stamps the campaign
MutFetchFailedStamps(db, c, now) ==
    [db EXCEPT !.campaigns = [@ EXCEPT ![c].last_synced_at = now]]

\* except requests.exceptions.RequestException (sync_campaign), except
\* Exception as campaign_error (sync_all_campaigns): nothing is written.
FetchFailed(db, c, now) == db

\* (mutant) the row counter of the scheduled job, which starts at 0
MutAdvanceCursorFromZero(last_synced_data, gid_key, current_row) ==
    [last_synced_data EXCEPT ![gid_key] = current_row - 1]

\* (mutant) the cursor is put one row past the last row of the sheet
MutAdvanceCursorPastEnd(last_synced_data, gid_key, current_row) ==
    [last_synced_data EXCEPT ![gid_key] = current_row + 1]

\* last_synced_data[gid_key] = current_row
AdvanceCursor(last_synced_data, gid_key, current_row) ==
    [last_synced_data EXCEPT ![gid_key] = current_row]

\* UPDATE campaigns SET last_synced_row = %s::jsonb, last_synced_at =
\* CURRENT_TIMESTAMP WHERE id = %s
UpdateCampaign(rows, c, cursor, now) ==
    [rows EXCEPT ![c].last_synced_row = cursor, ![c].last_synced_at = now]

AppSyncBody(db, c, sh, dist, now, failStatus) ==
    LET cfg == Config[c]
        pre == db.campaigns[c].last_synced_row
        gid == GidOf(cfg.sheet_url)
        gid_key == GidKey(gid)
    IN  IF dist.kind = "fetch"
        THEN Outcome(FetchFailed(db, c, now), Failure(failStatus, "fetch"),
                     Nothing(db), pre, 0)
        ELSE
        LET rows == Export(cfg.sheet_url.doc, gid, sh)
            last_synced_data == LastSyncedData(pre)
            last_synced_row == GetCursor(pre, gid_key)
            current_row == 1 + Len(rows)
            cursor == MapCursor(AdvanceCursor(last_synced_data, gid_key, current_row))
        IN  CHOOSE out \in {
            IF tx.aborted
            THEN \* the UPDATE raises; the handler returns without commit
                 Outcome(Uncommitted(db, tx), Failure(failStatus, "exception"), tx,
                         pre, Len(rows))
            ELSE Outcome(Database(UpdateCampaign(db.campaigns, c, cursor, now),
                                  tx.leads, tx.activities),
                         Response(TRUE, 200, tx.new_leads, tx.duplicates, tx.errors,
                                  current_row, ""),
                         tx, pre, Len(rows))
            : tx \in {AppLoop(Begin(db, last_synced_row), rows, 1, last_synced_row, cfg,
                              IF dist.kind = "db" THEN dist.row ELSE 0)} } : TRUE

(***************************************************************************)
(* app.py sync_campaign(campaign_id): POST /admin/campaigns/sync/<id>      *)
(***************************************************************************)
NoCursor == MapCursor(EmptyMap)

SyncCampaign(db, campaign_id, sh, dist, now) ==
    IF dist.kind = "conn"
    THEN Outcome(db, Failure(500, "Database not available"), Nothing(db), NoCursor, 0)
    ELSE IF campaign_id \notin CampaignIds
    THEN Outcome(db, Failure(404, "Campaign not found"), Nothing(db), NoCursor, 0)
    ELSE LET pre == db.campaigns[campaign_id].last_synced_row
             url == Config[campaign_id].sheet_url
         IN  IF ~url.text
             THEN Outcome(db, Failure(400, "No sheet URL configured"), Nothing(db), pre, 0)
             ELSE IF ~SheetIdMatch(url)
             THEN Outcome(db, Failure(400, "Invalid Google Sheet URL"), Nothing(db), pre, 0)
             ELSE AppSyncBody(db, campaign_id, sh, dist, now, 500)

(***************************************************************************)
(* app.py sync_all_campaigns(): POST /admin/campaigns/sync-all             *)
(***************************************************************************)
\* The list query without the test of active.
MutSelectedIgnoresActive == { c \in CampaignIds : Config[c].sheet_url.text }

\* WHERE active = true AND sheet_url IS NOT NULL AND sheet_url != '' ORDER BY id
Selected == { c \in CampaignIds : Config[c].active /\ Config[c].sheet_url.text }

RECURSIVE Ordered(_)
Ordered(S) ==
    IF S = {} THEN <<>>
    ELSE LET m == CHOOSE x \in S : \A y \in S : x <= y IN <<m>> \o Ordered(S \ {m})

\* One iteration of "for campaign in campaigns" (3748-3931).
SweepOne(db, c, sh, dist, now) ==
    IF dist.kind = "conn"
    THEN Outcome(db, Failure(0, "Database not available"), Nothing(db),
                 db.campaigns[c].last_synced_row, 0)
    ELSE IF ~SheetIdMatch(Config[c].sheet_url)
    THEN Outcome(db, Failure(0, "Invalid Google Sheet URL"), Nothing(db),
                 db.campaigns[c].last_synced_row, 0)
    ELSE AppSyncBody(db, c, sh, dist, now, 0)

\* The connection of the run when the handler (or the iteration) is left:
\* conn.close() is called before the success response, before the "not
\* found" return of sync_campaigns.py and in the invalid-URL branch of the
\* sweep; the 404 and 400 returns of sync_campaign and every except handler
\* leave without it.  "none": get_db_connection() returned None.
ConnectionAtExit(path, res) ==
    IF res.error = "Database not available" THEN "none"
    ELSE IF res.success THEN "closed"
    ELSE IF path = "sweep" /\ res.error = "Invalid Google Sheet URL" THEN "closed"
    ELSE "open"

Entry(c, path, dist, before, out) ==
    [cid |-> c, path |-> path, dist |-> dist, result |-> out.result,
     conn |-> ConnectionAtExit(path, out.result),
     trace |-> out.trace, counts |-> out.counts, lookups |-> out.lookups,
     pre |-> out.pre, fetched |-> out.fetched,
     leads_before |-> Len(before.leads), leads_after |-> Len(out.db.leads),
     acts_before |-> Len(before.activities), acts_after |-> Len(out.db.activities)]

\* The loop over the campaigns: the tables after it, one results entry per
\* iteration in order, and the totals, which only the success path adds to.
Sweeping(db) ==
    [db |-> db, runs |-> <<>>, total_new_leads |-> 0, total_duplicates |-> 0,
     total_errors |-> 0]

\* (mutant) a failed campaign counts as one error, as in main() of the
\* scheduled job
MutSweepStepCountsFailure(acc, c, sh, dist, now) ==
    CHOOSE step \in {
        LET res == out.result
        IN  [db |-> out.db,
             runs |-> Append(acc.runs, Entry(c, "sweep", dist, acc.db, out)),
             total_new_leads |-> acc.total_new_leads + (IF res.success THEN res.new_leads ELSE 0),
             total_duplicates |-> acc.total_duplicates + (IF res.success THEN res.duplicates ELSE 0),
             total_errors |-> acc.total_errors + (IF res.success THEN res.errors ELSE 1)]
        : out \in {SweepOne(acc.db, c, sh, dist, now)} } : TRUE

SweepStep(acc, c, sh, dist, now) ==
    CHOOSE step \in {
        LET res == out.result
        IN  [db |-> out.db,
             runs |-> Append(acc.runs, Entry(c, "sweep", dist, acc.db, out)),
             total_new_leads |-> acc.total_new_leads + (IF res.success THEN res.new_leads ELSE 0),
             total_duplicates |-> acc.total_duplicates + (IF res.success THEN res.duplicates ELSE 0),
             total_errors |-> acc.total_errors + (IF res.success THEN res.errors ELSE 0)]
        : out \in {SweepOne(acc.db, c, sh, dist, now)} } : TRUE

RECURSIVE SweepLoop(_, _, _, _, _, _)
SweepLoop(acc, order, i, sh, dists, now) ==
    IF i > Len(order) THEN acc
    ELSE CHOOSE tail \in { SweepLoop(next, order, i + 1, sh, dists, now) :
                            next \in {SweepStep(acc, order[i], sh, dists[order[i]], now)} } : TRUE

Report(op, st, runs, n, d, e) ==
    [op |-> op, status |-> st, runs |-> runs, total_new_leads |-> n,
     total_duplicates |-> d, total_errors |-> e]

Idle == Report("none", 0, <<>>, 0, 0, 0)

(***************************************************************************)
(* sync_campaigns.py sync_campaign(campaign): the scheduled job            *)
(***************************************************************************)
\* if not name or (not phone and not email): continue
SchedRejects(name, phone, email) == ~Truthy(name) \/ (~Truthy(phone) /\ ~Truthy(email))

SchedInsert(tx, cfg, name, phone, email, current_row) ==
    LET lead == [customer_id |-> cfg.customer_id, name |-> name,
                 email |-> OrNone(email), phone |-> OrNone(phone),
                 campaign |-> NullStr, campaign_name |-> cfg.campaign_name,
                 row_number |-> current_row, sheet_id |-> cfg.sheet_id]
    IN  Note([tx EXCEPT !.leads = Append(@, lead),
                        !.new_leads = @ + 1,
                        !.max_row_processed = current_row], "inserted")

SchedRow(tx, row_data, current_row, last_synced_row, cfg, fails) ==
    IF Behind(current_row, last_synced_row) THEN Note(tx, "behind")
    ELSE IF ~AnyCell(row_data) THEN Note(tx, "empty")
    ELSE IF ~cfg.column_mapping THEN Note([tx EXCEPT !.broke = TRUE], "break")
    ELSE LET name == Strip(row_data.name)
             phone == CleanPhone(Strip(row_data.phone))
             email == Strip(row_data.email)
             byRow == LookedByRow(tx, current_row)
             looked == Looked(byRow, current_row, phone, email)
         IN  IF SchedRejects(name, phone, email)
             THEN Note(tx, "rejected")
             ELSE IF tx.aborted \/ fails THEN RowError(byRow, TRUE)
             ELSE IF ExistingByRow(tx.leads, cfg.customer_id, cfg.campaign_name,
                                   current_row, cfg.sheet_id)
             THEN Duplicate(byRow)
             ELSE IF BadParam(phone) \/ BadParam(email) THEN RowError(looked, FALSE)
             ELSE IF DuplicateCheck(tx.leads, cfg.customer_id, phone, email)
             THEN Duplicate(looked)
             ELSE IF BadParam(name) THEN RowError(looked, FALSE)
             ELSE SchedInsert(looked, cfg, name, phone, email, current_row)

\* current_row = 0 before the loop, += 1 at the top of every iteration
RECURSIVE SchedLoop(_, _, _, _, _, _)
SchedLoop(tx, rows, i, last_synced_row, cfg, failRow) ==
    IF i > Len(rows) \/ tx.broke THEN tx
    ELSE CHOOSE tail \in { SchedLoop(next, rows, i + 1, last_synced_row, cfg, failRow) :
                            next \in {SchedRow(tx, rows[i], i, last_synced_row, cfg, failRow = i)} } : TRUE

\* campaign_full.get('last_synced_row', 0) or 0 is a dict when the column
\* holds a non-empty JSON object
IsDict(v) == v.kind = "map" /\ v.m # EmptyMap
OrZero(v) == IF v.kind = "int" THEN v.n ELSE 0

SchedSyncCampaign(db, c, sh, dist, now) ==
    LET cfg == Config[c]
        pre == db.campaigns[c].last_synced_row
    IN  IF dist.kind = "conn"
        THEN Outcome(db, Failure(0, "Database connection failed"), Nothing(db), pre, 0)
        ELSE IF dist.kind = "fetch" \/ cfg.sheet_url.doc = ""
        THEN Outcome(db, Failure(0, "fetch"), Nothing(db), pre, 0)
        ELSE
        LET rows == Export(cfg.sheet_url.doc, "0", sh)
        IN  IF IsDict(pre)
            THEN \* current_row <= last_synced_row, or max_row_processed >
                 \* last_synced_row when there is no row, raises TypeError
                 Outcome(db, Failure(0, "exception"), Nothing(db), pre, Len(rows))
            ELSE
            LET last_synced_row == OrZero(pre)
            IN  CHOOSE out \in {
            LET updated == [db.campaigns EXCEPT
                              ![c].last_synced_row = IntCursor(tx.max_row_processed),
                              ![c].last_sync_at = now]
                ok == Response(TRUE, 0, tx.new_leads, tx.duplicates, tx.errors,
                               tx.max_row_processed, "")
            IN  IF tx.max_row_processed > last_synced_row
                THEN IF tx.aborted
                     THEN \* the UPDATE raises
                          Outcome(Uncommitted(db, tx), Failure(0, "exception"), tx, pre,
                                  Len(rows))
                     ELSE Outcome(Database(updated, tx.leads, tx.activities), ok, tx,
                                  pre, Len(rows))
                ELSE IF tx.aborted
                     THEN \* COMMIT of an aborted transaction rolls back
                          Outcome(db, ok, tx, pre, Len(rows))
                     ELSE Outcome(Database(db.campaigns, tx.leads, tx.activities), ok,
                                  tx, pre, Len(rows))
            : tx \in {SchedLoop(Begin(db, last_synced_row), rows, 1, last_synced_row,
                                cfg, IF dist.kind = "db" THEN dist.row ELSE 0)} } : TRUE

\* main(): for campaign in campaigns: result = sync_campaign(campaign)
MainStep(acc, c, sh, dist, now) ==
    CHOOSE step \in {
        LET res == out.result
        IN  [db |-> out.db,
             runs |-> Append(acc.runs, Entry(c, "sched", dist, acc.db, out)),
             total_new_leads |-> acc.total_new_leads + (IF res.success THEN res.new_leads ELSE 0),
             total_duplicates |-> acc.total_duplicates + (IF res.success THEN res.duplicates ELSE 0),
             total_errors |-> acc.total_errors + (IF res.success THEN res.errors ELSE 1)]
        : out \in {SchedSyncCampaign(acc.db, c, sh, dist, now)} } : TRUE

RECURSIVE MainLoop(_, _, _, _, _, _)
MainLoop(acc, order, i, sh, dists, now) ==
    IF i > Len(order) THEN acc
    ELSE CHOOSE tail \in { MainLoop(next, order, i + 1, sh, dists, now) :
                            next \in {MainStep(acc, order[i], sh, dists[order[i]], now)} } : TRUE

(***************************************************************************)
(* The state machine                                                       *)
(***************************************************************************)
Stored == Database(campaigns, leads, activities)

\* Two workers can serve the HTTP trigger, and the scheduled job can run
\* beside them.
Procs == 1..2

NotStarted ==
    [pc |-> "idle", path |-> "none", rows |-> <<>>, i |-> 0, pre |-> NoCursor,
     last_synced_row |-> 0, tx |-> Begin(Database(<<>>, <<>>, <<>>), 0)]

Init ==
    /\ campaigns = [c \in CampaignIds |->
                      [last_synced_row |-> NoCursor, last_synced_at |-> 0,
                       last_sync_at |-> 0]]
    /\ leads = <<>>
    /\ activities = <<>>
    /\ sheet = <<>>
    /\ clock = 0
    /\ last = Idle
    /\ procs = [p \in Procs |-> NotStarted]

Store(db) ==
    /\ campaigns' = db.campaigns
    /\ leads' = db.leads
    /\ activities' = db.activities

\* The owner of the spreadsheet appends a row to the tab.
AppendRow(r) ==
    /\ Len(sheet) < MaxRows
    /\ sheet' = Append(sheet, r)
    /\ last' = Idle
    /\ UNCHANGED <<campaigns, leads, activities, clock, procs>>

\* The owner of the spreadsheet deletes a row of the tab.
RemoveRow(i) ==
    /\ i \in 1..Len(sheet)
    /\ sheet' = SubSeq(sheet, 1, i - 1) \o SubSeq(sheet, i + 1, Len(sheet))
    /\ last' = Idle
    /\ UNCHANGED <<campaigns, leads, activities, clock, procs>>

\* The disturbances that can make a difference to a run of campaign c that
\* fetches tab gid: a failing fetch, and a statement failing at a row.
DistsOf(c, gid) ==
    IF Config[c].sheet_url.doc = "" THEN {}
    ELSE {NoFetch} \cup
         { DbFail(r) : r \in 1..Len(Export(Config[c].sheet_url.doc, gid, sheet)) }

OnDemand(c, dist) ==
    /\ clock < MaxRuns
    /\ \E out \in {SyncCampaign(Stored, c, sheet, dist, clock + 1)} :
           /\ Store(out.db)
           /\ last' = Report("sync_campaign", out.result.status,
                             <<Entry(c, "app", dist, Stored, out)>>, 0, 0, 0)
    /\ clock' = clock + 1
    /\ UNCHANGED <<sheet, procs>>

SweepAll(top, dists) ==
    /\ clock < MaxRuns
    /\ IF top.kind = "conn"
       THEN /\ last' = Report("sync_all_campaigns", 500, <<>>, 0, 0, 0)
            /\ UNCHANGED <<campaigns, leads, activities>>
       ELSE \E acc \in {SweepLoop(Sweeping(Stored), Ordered(Selected), 1, sheet, dists,
                                    clock + 1)} :
                /\ Store(acc.db)
                /\ last' = Report("sync_all_campaigns", 200, acc.runs,
                                  acc.total_new_leads, acc.total_duplicates,
                                  acc.total_errors)
    /\ clock' = clock + 1
    /\ UNCHANGED <<sheet, procs>>

ScheduledMain(top, dists) ==
    /\ clock < MaxRuns
    /\ IF top.kind = "conn"
       THEN /\ last' = Report("main", 1, <<>>, 0, 0, 0)
            /\ UNCHANGED <<campaigns, leads, activities>>
       ELSE \E acc \in {MainLoop(Sweeping(Stored), Ordered(Selected), 1, sheet, dists,
                                   clock + 1)} :
                /\ Store(acc.db)
                /\ last' = Report("main", 0, acc.runs, acc.total_new_leads,
                                  acc.total_duplicates, acc.total_errors)
    /\ clock' = clock + 1
    /\ UNCHANGED <<sheet, procs>>

\* One campaign of a sweep is disturbed, the others run calmly.
AllCalm == [x \in Selected |-> Calm]
Only(c, dist) == [AllCalm EXCEPT ![c] = dist]

Edit ==
    \/ \E r \in RowShapes : AppendRow(r)
    \/ \E i \in 1..MaxRows : RemoveRow(i)

Invoke ==
    \/ \E c \in CampaignIds \cup {NoSuchId} : OnDemand(c, Calm)
    \/ OnDemand(1, NoConn)
    \/ \E c \in CampaignIds : \E dist \in DistsOf(c, GidOf(Config[c].sheet_url)) :
          OnDemand(c, dist)
    \/ SweepAll(NoConn, AllCalm)
    \/ SweepAll(Calm, AllCalm)
    \/ SweepAll(Calm, Only(1, NoConn))
    \/ \E c \in Selected : \E dist \in DistsOf(c, GidOf(Config[c].sheet_url)) :
          SweepAll(Calm, Only(c, dist))
    \/ ScheduledMain(NoConn, AllCalm)
    \/ ScheduledMain(Calm, AllCalm)
    \/ ScheduledMain(Calm, Only(1, NoConn))
    \/ \E c \in Selected : \E dist \in DistsOf(c, "0") : ScheduledMain(Calm, Only(c, dist))

Next == Edit \/ Invoke

Spec == Init /\ [][Next]_vars

(***************************************************************************)
(* Overlapping runs of campaign 1.  Nothing in the code serialises two     *)
(* runs: each has its own connection and transaction (READ COMMITTED, the  *)
(* default of PostgreSQL), reads the cursor and fetches the sheet when it  *)
(* starts, handles one row per step and commits at its end.                *)
(***************************************************************************)
RaceCampaign == 1

\* (mutant) a statement also sees what other transactions have not committed
MutVisibleDirty(stored, own, foreign) == stored \o foreign \o own

\* What a statement of a transaction sees of a table: the committed rows and
\* the rows the transaction wrote itself.
Visible(stored, own, foreign) == stored \o own

\* (mutant) the rows written before the run stopped are kept
MutDiscardedKept(stored, own) == stored \o own

\* A transaction that ends without commit (exception, or the process dies
\* and the server drops the connection) leaves the table as committed.
Discarded(stored, own) == stored

\* The leads the other runs have written and not committed.
Foreign(p) ==
    LET q == CHOOSE x \in Procs : x # p
    IN  IF procs[q].pc = "rows" THEN procs[q].tx.leads ELSE <<>>

\* The activities of a transaction refer to its leads by their position
\* among its own leads until the commit places them in the table.
OwnActivities(old, seen, base) ==
    IF Len(seen) > Len(old)
    THEN Append(old, [seen[Len(seen)] EXCEPT !.lead_id = @ - base])
    ELSE old

Placed(acts, base) == [k \in DOMAIN acts |-> [acts[k] EXCEPT !.lead_id = @ + base]]

\* The run starts: SELECT of the campaign row, fetch of the sheet.
Start(p, path) ==
    /\ procs[p].pc = "idle"
    /\ LET cfg == Config[RaceCampaign]
           pre == campaigns[RaceCampaign].last_synced_row
           gid == IF path = "app" THEN GidOf(cfg.sheet_url) ELSE "0"
           cursor == IF path = "app" THEN GetCursor(pre, GidKey(gid)) ELSE OrZero(pre)
       IN  procs' = [procs EXCEPT ![p] =
                       [pc |-> IF path = "sched" /\ IsDict(pre) THEN "failed" ELSE "rows",
                        path |-> path, rows |-> Export(cfg.sheet_url.doc, gid, sheet),
                        i |-> 1, pre |-> pre, last_synced_row |-> cursor,
                        tx |-> Begin(Database(<<>>, <<>>, <<>>), cursor)]]
    /\ UNCHANGED <<campaigns, leads, activities, sheet, clock, last>>

\* One iteration of the row loop.
Step(p, fails) ==
    /\ procs[p].pc = "rows"
    /\ procs[p].i <= Len(procs[p].rows)
    /\ LET me == procs[p]
           base == Len(Visible(leads, <<>>, Foreign(p)))
           view == [me.tx EXCEPT !.leads = Visible(leads, @, Foreign(p)),
                                 !.activities = activities \o @]
       IN  \E out \in { IF me.path = "app"
                        THEN AppRow(view, me.rows[me.i], me.i + 1, me.last_synced_row,
                                    Config[RaceCampaign], fails)
                        ELSE SchedRow(view, me.rows[me.i], me.i, me.last_synced_row,
                                      Config[RaceCampaign], fails) } :
             procs' = [procs EXCEPT ![p] =
                         [me EXCEPT !.i = @ + 1,
                                    !.tx = [out EXCEPT
                                       !.leads = SubSeq(@, base + 1, Len(@)),
                                       !.activities =
                                          OwnActivities(me.tx.activities,
                                                        SubSeq(@, Len(activities) + 1, Len(@)),
                                                        base)]]]
    /\ UNCHANGED <<campaigns, leads, activities, sheet, clock, last>>

\* The cursor the run stores: app.py writes back the map it read at its
\* start with the entry of its tab replaced, sync_campaigns.py an integer.
RaceCursor(me) ==
    IF me.path = "app"
    THEN MapCursor(AdvanceCursor(LastSyncedData(me.pre),
                                 GidKey(GidOf(Config[RaceCampaign].sheet_url)),
                                 1 + Len(me.rows)))
    ELSE IntCursor(me.tx.max_row_processed)

Updates(me) == me.path = "app" \/ me.tx.max_row_processed > me.last_synced_row

\* After the loop: the UPDATE of the cursor and conn.commit().
Finish(p) ==
    /\ procs[p].pc = "rows"
    /\ procs[p].i > Len(procs[p].rows)
    /\ LET me == procs[p]
       IN  IF me.tx.aborted
           THEN \* the UPDATE raises, or COMMIT answers with a rollback
                /\ procs' = [procs EXCEPT ![p].pc = IF Updates(me) THEN "failed" ELSE "done"]
                /\ leads' = Discarded(leads, me.tx.leads)
                /\ activities' = Discarded(activities, me.tx.activities)
                /\ UNCHANGED <<campaigns, clock>>
           ELSE /\ procs' = [procs EXCEPT ![p].pc = "done"]
                /\ leads' = leads \o me.tx.leads
                /\ activities' = activities \o Placed(me.tx.activities, Len(leads))
                /\ IF Updates(me)
                   THEN campaigns' =
                          IF me.path = "app"
                          THEN UpdateCampaign(campaigns, RaceCampaign, RaceCursor(me), clock + 1)
                          ELSE [campaigns EXCEPT
                                  ![RaceCampaign].last_synced_row = RaceCursor(me),
                                  ![RaceCampaign].last_sync_at = clock + 1]
                   ELSE UNCHANGED campaigns
                /\ clock' = clock + 1
    /\ UNCHANGED <<sheet, last>>

\* The process of the run dies inside the loop.
Crash(p) ==
    /\ procs[p].pc = "rows"
    /\ procs' = [procs EXCEPT ![p].pc = "crashed"]
    /\ leads' = Discarded(leads, procs[p].tx.leads)
    /\ activities' = Discarded(activities, procs[p].tx.activities)
    /\ UNCHANGED <<campaigns, sheet, clock, last>>

RaceNext ==
    \/ \E r \in RowShapes : AppendRow(r)
    \/ \E p \in Procs : \E path \in {"app", "sched"} : Start(p, path)
    \/ \E p \in Procs : \E fails \in BOOLEAN : Step(p, fails)
    \/ \E p \in Procs : Finish(p)
    \/ \E p \in Procs : Crash(p)

SpecRace == Init /\ [][RaceNext]_vars

(***************************************************************************)
(* What the last invocation reported                                       *)
(***************************************************************************)
Runs == { last.runs[i] : i \in DOMAIN last.runs }

IsApp(e) == e.path \in {"app", "sweep"}

\* The tab a run reads: sync_campaigns.py exports without a gid.
TabOf(e) == IF e.path = "sched" THEN "0" ELSE GidOf(Config[e.cid].sheet_url)
FetchedBy(e) == Export(Config[e.cid].sheet_url.doc, TabOf(e), sheet)

\* The row index the loop gives to the i-th data row.
RowIndex(e, i) == IF e.path = "sched" THEN i ELSE i + 1

\* The stored cursor as the path of the run reads it.
CursorSeenBy(e, v) ==
    IF e.path = "sched" THEN OrZero(v) ELSE GetCursor(v, GidKey(TabOf(e)))

Errors(e) == { i \in DOMAIN e.trace : e.trace[i] = "error" }

\* The counters before the i-th fetched row was handled.
CountsBefore(e, i) ==
    IF i = 1
    THEN [new_leads |-> 0, duplicates |-> 0, errors |-> 0,
          leads |-> e.leads_before, activities |-> e.acts_before]
    ELSE e.counts[i - 1]

LookupsOf(e, i) == { k \in DOMAIN e.lookups : e.lookups[k].row = RowIndex(e, i) }

\* C1: across every step, for every campaign and tab, the stored cursor is
\* at least what it was before the step.
C1_CursorMonotone ==
    [][\A c \in CampaignIds : \A k \in GidKeys :
          GetCursor(campaigns'[c].last_synced_row, k)
             >= GetCursor(campaigns[c].last_synced_row, k)]_vars

\* C2: when a campaign is synced successfully twice in a row by the same
\* code with no edit of the sheet in between, the second run reports
\* new_leads = 0 and stores no lead.
C2_IdempotentReplay ==
    [][\A i \in DOMAIN last.runs : \A j \in DOMAIN last'.runs :
          LET first == last.runs[i]
              second == last'.runs[j]
          IN  ( /\ first.cid = second.cid
                /\ IsApp(first) = IsApp(second)
                /\ first.result.success
                /\ second.result.success )
              => /\ second.result.new_leads = 0
                 /\ second.leads_after = second.leads_before]_vars

\* The run of entry e repeated on the stored tables with the cursor put
\* back to the value the run started from.
Replay(e) ==
    LET db == Database([campaigns EXCEPT ![e.cid].last_synced_row = e.pre],
                       leads, activities)
    IN  IF e.path = "sched" THEN SchedSyncCampaign(db, e.cid, sheet, Calm, clock)
        ELSE SyncCampaign(db, e.cid, sheet, Calm, clock)

\* C3: after a successful run in which no row raised, the same run replayed
\* with the leads stored and the cursor at its value before the run inserts
\* no lead.
C3_ReplayWithoutAdvance ==
    \A e \in Runs :
        (e.result.success /\ Errors(e) = {})
                         => /\ Replay(e).result.success
                            /\ Replay(e).result.new_leads = 0
                            /\ Len(Replay(e).db.leads) = Len(leads)

\* The rows whose own processing raises: a cell the driver refuses, or the
\* statement the environment lets fail.
OwnFault(e, i) ==
    \/ e.dist = DbFail(i)
    \/ BadParam(FetchedBy(e)[i].phone)

\* C4: in a run where a row raised, only rows that raise themselves are
\* counted in errors, the run succeeds and its leads are stored.
C4_RowFaultIsolation ==
    \A e \in Runs :
        Errors(e) # {} =>
            /\ \A i \in Errors(e) : OwnFault(e, i)
            /\ e.result.success
            /\ e.result.errors = Cardinality(Errors(e))
            /\ e.leads_after = e.leads_before + e.result.new_leads

\* C5: a run in which a row raised succeeds, and the stored cursor is at
\* least the index of that row.
C5_RowErrorStaysRowLevel ==
    \A e \in Runs :
        \A i \in Errors(e) :
            /\ e.result.success
            /\ CursorSeenBy(e, campaigns[e.cid].last_synced_row) >= RowIndex(e, i)

\* C10: after a successful scheduled run the stored cursor is the index of
\* the last row of the fetched tab, whatever was done with the rows.
C10_SkippedRowsAdvance ==
    \A e \in Runs :
        (e.path = "sched" /\ e.result.success /\ ~("break" \in {e.trace[i] : i \in DOMAIN e.trace}))
            => OrZero(campaigns[e.cid].last_synced_row) = Len(FetchedBy(e))

(***************************************************************************)
(* The sweep of app.py                                                     *)
(***************************************************************************)
SweepReported(r) == r.op = "sync_all_campaigns" /\ r.status = 200

Succeeded(r) == SelectSeq(r.runs, LAMBDA e : e.result.success)
FailedIds(r) == { r.runs[i].cid : i \in { j \in DOMAIN r.runs : ~r.runs[j].result.success } }
DistsIn(r) ==
    [c \in Selected |-> (CHOOSE e \in { r.runs[i] : i \in DOMAIN r.runs } : e.cid = c).dist]

\* What makes a campaign of the sweep fail: no connection, no document id
\* in the URL, or a failing fetch.
Broken(e) == e.dist.kind \in {"conn", "fetch"} \/ ~SheetIdMatch(Config[e.cid].sheet_url)

\* C6: in a sweep, a campaign that cannot be synced is reported with
\* success false and an error, and the tables and the entries of the
\* other campaigns are those of the sweep over the other campaigns only.
C6_SweepIsolation ==
    [][SweepReported(last') =>
          LET alone == SweepLoop(Sweeping(Stored), Ordered(Selected \ FailedIds(last')),
                                 1, sheet, DistsIn(last'), clock')
          IN  /\ \A i \in DOMAIN last'.runs :
                    Broken(last'.runs[i]) =>
                        /\ ~last'.runs[i].result.success
                        /\ last'.runs[i].result.error # ""
              /\ alone.db = Database(campaigns', leads', activities')
              /\ alone.runs = Succeeded(last')]_vars

\* A sweep in which the fetch of one campaign failed, another campaign has
\* no document id, and the third one stored a lead.
C6_Witness ==
    /\ SweepReported(last)
    /\ \E e \in Runs : e.dist.kind = "fetch" /\ ~e.result.success
    /\ \E e \in Runs : ~SheetIdMatch(Config[e.cid].sheet_url) /\ ~e.result.success
    /\ \E e \in Runs : e.result.success /\ e.result.new_leads > 0
                       /\ e.leads_after > e.leads_before

RECURSIVE SumOf(_, _, _)
SumOf(runs, ids, field) ==
    IF ids = {} THEN 0
    ELSE LET i == CHOOSE x \in ids : TRUE
         IN  runs[i].result[field] + SumOf(runs, ids \ {i}, field)

Successes(r) == { i \in DOMAIN r.runs : r.runs[i].result.success }

\* C7: a sweep that returns has exactly one results entry for each selected
\* campaign, and its totals are the sums over the successful entries.
C7_SweepReportsAll ==
    SweepReported(last) =>
        /\ Len(last.runs) = Cardinality(Selected)
        /\ \A c \in Selected :
              Cardinality({ i \in DOMAIN last.runs : last.runs[i].cid = c }) = 1
        /\ last.total_new_leads = SumOf(last.runs, Successes(last), "new_leads")
        /\ last.total_duplicates = SumOf(last.runs, Successes(last), "duplicates")
        /\ last.total_errors = SumOf(last.runs, Successes(last), "errors")

\* A sweep with a failed campaign and with successful campaigns that
\* inserted, found a duplicate and counted a row error.
C7_Witness ==
    /\ SweepReported(last)
    /\ \E e \in Runs : ~e.result.success
    /\ Cardinality(Successes(last)) >= 2
    /\ last.total_new_leads > 0
    /\ last.total_duplicates > 0
    /\ last.total_errors > 0

\* C8: a run whose fetch fails changes neither the row of its campaign
\* (cursor, timestamps) nor the leads and activities.
C8_FetchFailureNoEffect ==
    [][\A i \in DOMAIN last'.runs :
          LET e == last'.runs[i]
          IN  e.dist.kind = "fetch" =>
                 /\ ~e.result.success
                 /\ campaigns'[e.cid] = campaigns[e.cid]
                 /\ e.leads_after = e.leads_before
                 /\ e.acts_after = e.acts_before
                 /\ Len(last'.runs) = 1 =>
                       /\ leads' = leads
                       /\ activities' = activities]_vars

\* A fetch of app.py failed for a campaign that was synced before, with
\* leads and activities stored.
C8_Witness ==
    \E e \in Runs :
        /\ IsApp(e)
        /\ e.dist.kind = "fetch"
        /\ campaigns[e.cid].last_synced_at > 0
        /\ campaigns[e.cid].last_synced_row # NoCursor
        /\ Len(leads) > 0
        /\ Len(activities) > 0

\* C9: after a successful run of app.py the stored cursor of the synced tab
\* is 1 + the number of data rows of the fetched tab, and last_synced_at
\* is the time of the run.
C9_CursorAtLastRow ==
    \A e \in Runs :
        (IsApp(e) /\ e.result.success) =>
            /\ campaigns[e.cid].last_synced_row.kind = "map"
            /\ campaigns[e.cid].last_synced_row.m[GidKey(TabOf(e))] = 1 + Len(FetchedBy(e))
            /\ campaigns[e.cid].last_synced_at = clock

\* A successful run that inserted nothing and moved the cursor forward to
\* the last row.
C9_Witness ==
    \E e \in Runs :
        /\ IsApp(e)
        /\ e.result.success
        /\ e.result.new_leads = 0
        /\ e.leads_after = e.leads_before
        /\ Len(FetchedBy(e)) > 0
        /\ GetCursor(e.pre, GidKey(TabOf(e))) < 1 + Len(FetchedBy(e))
        /\ GetCursor(campaigns[e.cid].last_synced_row, GidKey(TabOf(e))) = 1 + Len(FetchedBy(e))

(***************************************************************************)
(* The rows of a run                                                       *)
(***************************************************************************)
\* C11: a row whose index is at most the cursor value the run read causes
\* no duplicate lookup and no insert and changes no counter.
C11_BehindRowsUntouched ==
    \A e \in Runs : \A i \in DOMAIN e.trace :
        RowIndex(e, i) <= CursorSeenBy(e, e.pre) =>
            /\ e.counts[i] = CountsBefore(e, i)
            /\ LookupsOf(e, i) = {}

\* A successful run that passed over a row with a name and a phone at the
\* cursor and inserted a later row.
C11_Witness ==
    \E e \in Runs : \E i, j \in DOMAIN e.trace :
        /\ e.result.success
        /\ RowIndex(e, i) = CursorSeenBy(e, e.pre)
        /\ Truthy(FetchedBy(e)[i].name) /\ Truthy(FetchedBy(e)[i].phone)
        /\ j > i
        /\ e.trace[j] = "inserted"

\* The phone of a row as the path of the run normalizes it.
PhoneOf(e, row) ==
    IF e.path = "sched" THEN CleanPhone(Strip(row.phone)) ELSE CleanPhone(row.phone)

\* The leads of the campaign's tenant that were stored when the run began.
StoredBefore(e) ==
    { k \in 1..e.leads_before : leads[k].customer_id = Config[e.cid].customer_id }

Evaluated(e, i) == e.trace[i] \notin {"behind", "error", "break"}

\* C12: an evaluated row whose normalized phone is the phone of a lead the
\* tenant has stored is counted in duplicates and inserts nothing, whatever
\* its name and email.
C12_DuplicatePrecedence ==
    \A e \in Runs : \A i \in DOMAIN e.trace :
        ( /\ Evaluated(e, i)
          /\ Truthy(PhoneOf(e, FetchedBy(e)[i]))
          /\ \E k \in StoredBefore(e) : leads[k].phone = PhoneOf(e, FetchedBy(e)[i]) )
        => /\ e.counts[i].duplicates = CountsBefore(e, i).duplicates + 1
           /\ e.counts[i].leads = CountsBefore(e, i).leads

\* Email normalization as the claim words it: trim whitespace, lowercase,
\* strip trailing literal dots.
LowerCase == ("B" :> "b") @@ ("X" :> "x")
Lower(s) == [i \in DOMAIN s |-> IF s[i] \in DOMAIN LowerCase THEN LowerCase[s[i]] ELSE s[i]]

RECURSIVE StripDots(_)
StripDots(s) ==
    IF Len(s) > 0 /\ s[Len(s)] = "." THEN StripDots(SubSeq(s, 1, Len(s) - 1)) ELSE s

NormalizeEmail(s) == StripDots(Lower(Strip(s)))

\* C13: an evaluated row whose email normalizes to the normalized email of
\* a lead the tenant has stored inserts no lead.
C13_EmailNormalizedDuplicate ==
    \A e \in Runs : \A i \in DOMAIN e.trace :
        ( /\ Evaluated(e, i)
          /\ Truthy(NormalizeEmail(FetchedBy(e)[i].email))
          /\ \E k \in StoredBefore(e) :
                /\ leads[k].email # NULL
                /\ NormalizeEmail(leads[k].email) = NormalizeEmail(FetchedBy(e)[i].email) )
        => e.counts[i].leads = CountsBefore(e, i).leads

\* Phone normalization as the claim words it: spaces and hyphens removed,
\* and one leading '+'.
NormalizePhone(s) ==
    LET t == Replace(Replace(s, "-"), " ")
    IN  IF Len(t) > 0 /\ Head(t) = "+" THEN Tail(t) ELSE t

\* C14: the phone passed to the duplicate lookup of a row, and the phone
\* stored for the lead a row inserts, is the cell without spaces, hyphens
\* and leading '+'.
C14_PhoneNormalization ==
    \A e \in Runs : \A i \in DOMAIN e.trace :
        /\ \A k \in LookupsOf(e, i) :
              e.lookups[k].by = "contact" =>
                  e.lookups[k].phone = NormalizePhone(FetchedBy(e)[i].phone)
        /\ (e.result.success /\ e.trace[i] = "inserted") =>
              leads[e.counts[i].leads].phone = OrNone(NormalizePhone(FetchedBy(e)[i].phone))

NoTargetField(row) == ~Truthy(row.name) /\ ~Truthy(row.phone) /\ ~Truthy(row.email)

\* C15: a row whose name, phone and email are all empty leaves new_leads,
\* duplicates and errors as they were and adds no lead and no activity.
C15_RowRejection ==
    \A e \in Runs : \A i \in DOMAIN e.trace :
        NoTargetField(FetchedBy(e)[i]) =>
            /\ e.counts[i] = CountsBefore(e, i)
            /\ LookupsOf(e, i) = {}

\* One sweep of app.py met a row without any cell and a row with a cell
\* under an unmapped header only, both beyond the cursor, and inserted
\* another row.
C15_Witness ==
    /\ \E e \in Runs : \E i \in DOMAIN e.trace :
           IsApp(e) /\ e.trace[i] = "empty"
    /\ \E e \in Runs : \E i, j \in DOMAIN e.trace :
           /\ IsApp(e) /\ e.result.success
           /\ e.trace[i] = "rejected"
           /\ Truthy(FetchedBy(e)[i].other)
           /\ e.trace[j] = "inserted"

\* C16: every duplicate lookup by contact is made with a non-empty phone or
\* a non-empty email.
C16_LookupHasContact ==
    \A e \in Runs : \A k \in DOMAIN e.lookups :
        e.lookups[k].by = "contact" =>
            Truthy(e.lookups[k].phone) \/ Truthy(e.lookups[k].email)

\* C19: every row counted in new_leads wrote one lead and one activity that
\* refers to that lead and names the row; after a successful run as many
\* leads and as many activities were added as new_leads says.
C19_LeadAndActivity ==
    \A e \in Runs :
        e.result.success =>
            /\ e.leads_after - e.leads_before = e.result.new_leads
            /\ e.acts_after - e.acts_before = e.result.new_leads
            /\ \A i \in DOMAIN e.trace :
                  e.counts[i].new_leads = CountsBefore(e, i).new_leads + 1 =>
                      /\ e.counts[i].leads = CountsBefore(e, i).leads + 1
                      /\ e.counts[i].activities = CountsBefore(e, i).activities + 1
                      /\ activities[e.counts[i].activities].lead_id = e.counts[i].leads
                      /\ activities[e.counts[i].activities].row = RowIndex(e, i)

(***************************************************************************)
(* The HTTP triggers                                                       *)
(***************************************************************************)
Http(r) == r.op \in {"sync_campaign", "sync_all_campaigns"}

\* get_db_connection() gave nothing to the handler itself.
DbUnreachable(r) ==
    \/ r.op = "sync_all_campaigns" /\ r.runs = <<>>
    \/ r.op = "sync_campaign" /\ r.runs[1].dist.kind = "conn"

\* The path parameter names no campaign, or one that has no spreadsheet to
\* sync.
BadRequest(r) ==
    /\ r.op = "sync_campaign"
    /\ \/ r.runs[1].cid \notin CampaignIds
       \/ ~SheetIdMatch(Config[r.runs[1].cid].sheet_url)

\* C20: an HTTP trigger answers 200 unless the database cannot be reached or
\* the request is not well-formed, whatever failed inside the sync.
C20_Http200 ==
    (Http(last) /\ ~DbUnreachable(last) /\ ~BadRequest(last)) => last.status = 200

(***************************************************************************)
(* Overlapping runs                                                        *)
(***************************************************************************)
NameOf(me, row) == IF me.path = "sched" THEN Strip(row.name) ELSE row.name
EmailOf(me, row) == IF me.path = "sched" THEN Strip(row.email) ELSE row.email

\* The row the run is about to handle passes the cursor test and the
\* rejection test and holds nothing the driver refuses.
Accepts(me) ==
    LET row == me.rows[me.i]
    IN  /\ RowIndex(me, me.i) > me.last_synced_row
        /\ IF me.path = "sched"
           THEN ~SchedRejects(NameOf(me, row), PhoneOf(me, row), EmailOf(me, row))
           ELSE ~AppRejects(NameOf(me, row), PhoneOf(me, row), EmailOf(me, row))
        /\ ~BadParam(row.name) /\ ~BadParam(row.phone) /\ ~BadParam(row.email)

\* No committed lead and no lead of the run itself matches the row.
NoMatchInOwnView(me) ==
    LET row == me.rows[me.i]
        cfg == Config[RaceCampaign]
    IN  /\ ~DuplicateCheck(leads \o me.tx.leads, cfg.customer_id, PhoneOf(me, row),
                           EmailOf(me, row))
        /\ me.path = "sched" =>
              ~ExistingByRow(leads \o me.tx.leads, cfg.customer_id, cfg.campaign_name,
                             RowIndex(me, me.i), cfg.sheet_id)

Handles(p) == procs[p].pc = "rows" /\ procs'[p].i = procs[p].i + 1

\* C17: nothing a concurrent run has written and not committed keeps a run
\* from inserting: a row that is accepted, matches no committed lead and no
\* lead of the run itself, and meets no failing statement, is inserted.
C17_NoMutualExclusion ==
    [][\A p \in Procs :
          ( /\ Handles(p)
            /\ Accepts(procs[p])
            /\ NoMatchInOwnView(procs[p])
            /\ ~procs'[p].tx.aborted )
          => /\ Len(procs'[p].tx.leads) = Len(procs[p].tx.leads) + 1
             /\ procs'[p].tx.new_leads = procs[p].tx.new_leads + 1]_vars

\* Both runs have committed, both inserted the same sheet row, and the
\* table holds two leads of the tenant with the same phone or email.
C17_Witness ==
    /\ \A p \in Procs : procs[p].pc = "done" /\ procs[p].path = "app"
    /\ \E i \in DOMAIN procs[1].tx.trace \cap DOMAIN procs[2].tx.trace :
          /\ procs[1].tx.trace[i] = "inserted"
          /\ procs[2].tx.trace[i] = "inserted"
          /\ procs[1].rows[i] = procs[2].rows[i]
    /\ \E k, l \in DOMAIN leads :
          /\ k < l
          /\ leads[k].customer_id = leads[l].customer_id
          /\ leads[k].row_number = leads[l].row_number
          /\ \/ leads[k].phone # NULL /\ leads[k].phone = leads[l].phone
             \/ leads[k].email # NULL /\ leads[k].email = leads[l].email

Commits(p) == procs[p].pc = "rows" /\ procs'[p].pc = "done"
Stops(p) == procs[p].pc = "rows" /\ procs'[p].pc \in {"failed", "crashed"}

\* C18: the stored tables change only in the step in which a run commits,
\* and then by all the leads and activities of that run together with its
\* cursor; a run that stops before its commit changes nothing.
C18_OneTransaction ==
    [][/\ (leads' # leads \/ activities' # activities \/ campaigns' # campaigns)
            => \E p \in Procs : Commits(p)
       /\ \A p \in Procs :
             (Commits(p) /\ ~procs[p].tx.aborted) =>
                 /\ leads' = leads \o procs[p].tx.leads
                 /\ Len(activities') = Len(activities) + Len(procs[p].tx.activities)
                 /\ Updates(procs[p]) =>
                       campaigns'[RaceCampaign].last_synced_row = RaceCursor(procs[p])
       /\ \A p \in Procs :
             Stops(p) => /\ leads' = leads
                         /\ activities' = activities
                         /\ campaigns' = campaigns]_vars

\* One run stopped before its commit after it had inserted a lead and an
\* activity; the table holds the leads of the other run only, which
\* committed them with its cursor.
C18_Witness ==
    \E p, q \in Procs :
        /\ procs[p].pc \in {"failed", "crashed"}
        /\ Len(procs[p].tx.leads) > 0
        /\ Len(procs[p].tx.activities) > 0
        /\ procs[q].pc = "done"
        /\ Len(procs[q].tx.leads) > 0
        /\ leads = procs[q].tx.leads
        /\ campaigns[RaceCampaign].last_synced_row = RaceCursor(procs[q])

(***************************************************************************)
(* The cursor column                                                       *)
(***************************************************************************)
\* The row a stored cursor value records for a tab: the entry of the map,
\* a legacy integer above 1 for the first tab, and 1 when nothing is
\* recorded.
RecordedFor(v, key) ==
    IF v.kind = "int"
    THEN (IF key = "gid_0" /\ v.n > 1 THEN v.n ELSE 1)
    ELSE (IF v.m[key] = 0 THEN 1 ELSE v.m[key])

\* C21: a run leaves what the cursor column records for every tab other
\* than its own as it was, a legacy integer included.
C21_OtherTabsUnchanged ==
    [][\A i \in DOMAIN last'.runs :
          LET e == last'.runs[i]
          IN  e.cid \in CampaignIds =>
                \A key \in GidKeys \ {GidKey(TabOf(e))} :
                    RecordedFor(campaigns'[e.cid].last_synced_row, key)
                        = RecordedFor(campaigns[e.cid].last_synced_row, key)]_vars

\* A successful run of app.py for tab gid 7 started from a legacy integer
\* cursor above 1 and stored a map with both entries.
C21_Witness ==
    \E e \in Runs :
        /\ IsApp(e) /\ e.result.success
        /\ GidKey(TabOf(e)) = "gid_7"
        /\ e.pre.kind = "int" /\ e.pre.n > 1
        /\ campaigns[e.cid].last_synced_row.kind = "map"
        /\ campaigns[e.cid].last_synced_row.m["gid_0"] = e.pre.n
        /\ campaigns[e.cid].last_synced_row.m["gid_7"] > 1

(***************************************************************************)
(* Tenants                                                                 *)
(***************************************************************************)
\* The leads table as the run saw it before its i-th fetched row is a prefix
\* of the stored table: the run committed what it inserted, or had inserted
\* nothing yet.
ViewIsStored(e, i) ==
    \/ CountsBefore(e, i).leads = e.leads_before
    \/ e.leads_after = e.counts[Len(e.counts)].leads

\* A lead of the campaign's tenant in the view of the i-th row that has the
\* row's phone or email, or, for sync_campaigns.py, its row number.
SameTenantMatch(e, i) ==
    LET row == FetchedBy(e)[i]
        cfg == Config[e.cid]
    IN  \E k \in 1..CountsBefore(e, i).leads :
            /\ leads[k].customer_id = cfg.customer_id
            /\ \/ leads[k].phone # NULL /\ leads[k].phone = PhoneOf(e, row)
               \/ leads[k].email # NULL /\ leads[k].email = EmailOf(e, row)
               \/ /\ e.path = "sched"
                  /\ leads[k].campaign_name = cfg.campaign_name
                  /\ leads[k].sheet_id = cfg.sheet_id
                  /\ leads[k].row_number = RowIndex(e, i)

\* C22: a row is counted as a duplicate exactly when a lead of the campaign's
\* own tenant in the run's view matches it; without such a lead the row is
\* inserted, whatever leads of other tenants hold.
C22_TenantScoped ==
    \A e \in Runs : \A i \in DOMAIN e.trace :
        (e.trace[i] \in {"duplicate", "inserted"} /\ ViewIsStored(e, i)) =>
            (e.trace[i] = "duplicate" <=> SameTenantMatch(e, i))

\* A row was inserted for one tenant while a lead of another tenant held the
\* same phone.
C22_Witness ==
    \E e \in Runs : \E i \in DOMAIN e.trace :
        /\ e.trace[i] = "inserted"
        /\ ViewIsStored(e, i)
        /\ \E k \in 1..CountsBefore(e, i).leads :
              /\ leads[k].customer_id # Config[e.cid].customer_id
              /\ leads[k].phone # NULL
              /\ leads[k].phone = PhoneOf(e, FetchedBy(e)[i])

(***************************************************************************)
(* What a sweep touches                                                    *)
(***************************************************************************)
\* The campaigns the list query of a sweep leaves out.
LeftOut == { c \in CampaignIds : ~Config[c].active \/ ~Config[c].sheet_url.text }

SweepOps == {"sync_all_campaigns", "main"}

\* C23: a sweep (of app.py or of the scheduled job) leaves the campaign row
\* of every inactive campaign and of every campaign without sheet URL as it
\* was, runs no sync and inserts no lead for them, handles the others in
\* campaign-id order, and each run starts from the tables the run before it
\* left committed.
C23_SweepTouchesSelected ==
    [][(last'.op \in SweepOps /\ last' # last) =>
          LET runs == last'.runs
          IN  /\ \A c \in LeftOut :
                    /\ campaigns'[c] = campaigns[c]
                    /\ \A i \in DOMAIN runs : runs[i].cid # c
                    /\ \A k \in (Len(leads) + 1)..Len(leads') :
                          leads'[k].sheet_id # Config[c].sheet_id
              /\ \A i, j \in DOMAIN runs : i < j => runs[i].cid < runs[j].cid
              /\ \A i \in DOMAIN runs :
                    /\ runs[i].leads_before =
                          (IF i = 1 THEN Len(leads) ELSE runs[i - 1].leads_after)
                    /\ runs[i].acts_before =
                          (IF i = 1 THEN Len(activities) ELSE runs[i - 1].acts_after)
              /\ runs # <<>> =>
                    /\ Len(leads') = runs[Len(runs)].leads_after
                    /\ Len(activities') = runs[Len(runs)].acts_after]_vars

\* A sweep in which two campaigns stored leads one after the other, while
\* the inactive campaign, synced on demand before, and the campaign without
\* sheet URL kept their rows.
C23_Witness ==
    /\ last.op \in SweepOps
    /\ \E i, j \in DOMAIN last.runs :
          /\ i < j
          /\ last.runs[i].leads_after > last.runs[i].leads_before
          /\ last.runs[j].leads_after > last.runs[j].leads_before
    /\ campaigns[5].last_synced_row # NoCursor
    /\ campaigns[5].last_synced_at < clock
    /\ campaigns[6].last_synced_row = NoCursor
    /\ \E k \in DOMAIN leads : leads[k].sheet_id = Config[5].sheet_id

(***************************************************************************)
(* The connection of a run                                                 *)
(***************************************************************************)
\* C24: when a run returns, the connection it opened has been closed.
C24_ConnectionClosed == \A e \in Runs : e.conn # "open"

(***************************************************************************)
(* Row indices                                                             *)
(***************************************************************************)
\* The run committed what it inserted.
Committed(e) == e.trace # <<>> /\ e.leads_after = e.counts[Len(e.counts)].leads

\* C25: in every path the i-th data row of the sheet has index i + 1 (row 1
\* is the header): the lead a committed run inserted for it carries that
\* index as its row_number.
C25_SameRowIndex ==
    \A e \in Runs : \A i \in DOMAIN e.trace :
        (Committed(e) /\ e.trace[i] = "inserted") =>
            leads[e.counts[i].leads].row_number = i + 1

(***************************************************************************)
(* Uniqueness of contacts                                                  *)
(***************************************************************************)
\* C26: with runs executed one at a time, no two stored leads of one tenant
\* have the same phone or the same email.
C26_SoftUniqueness ==
    \A k, l \in DOMAIN leads :
        (k < l /\ leads[k].customer_id = leads[l].customer_id) =>
            /\ ~(leads[k].phone # NULL /\ leads[k].phone = leads[l].phone)
            /\ ~(leads[k].email # NULL /\ leads[k].email = leads[l].email)

\* A committed run inserted a row and counted a later row of the same sheet
\* with the same phone as a duplicate.
C26_Witness ==
    \E e \in Runs : \E i, j \in DOMAIN e.trace :
        /\ Committed(e)
        /\ i < j
        /\ e.trace[i] = "inserted"
        /\ e.trace[j] = "duplicate"
        /\ Truthy(PhoneOf(e, FetchedBy(e)[i]))
        /\ PhoneOf(e, FetchedBy(e)[j]) = PhoneOf(e, FetchedBy(e)[i])
        /\ leads[e.counts[i].leads].phone = PhoneOf(e, FetchedBy(e)[i])
        /\ e.leads_after = e.leads_before + 1

(***************************************************************************)
(* A sheet that only grows, synced without disturbance                     *)
(***************************************************************************)
\* The rows no statement fails on.
SoundShapes ==
    { r \in RowShapes : ~BadParam(r.name) /\ ~BadParam(r.phone) /\ ~BadParam(r.email) }

GrowNext ==
    \/ \E r \in SoundShapes : AppendRow(r)
    \/ \E c \in CampaignIds : OnDemand(c, Calm)
    \/ SweepAll(Calm, AllCalm)
    \/ ScheduledMain(Calm, AllCalm)

SpecGrow == Init /\ [][GrowNext]_vars

\* The row has a name and a phone or an email, as the path of the run reads
\* them.
HasContact(e, row) ==
    /\ Truthy(NameOf(e, row))
    /\ Truthy(PhoneOf(e, row)) \/ Truthy(EmailOf(e, row))

\* A lead of the campaign's tenant, stored when the run has ended, holds the
\* phone or the email of the row.
Represented(e, row) ==
    \E k \in 1..e.leads_after :
        /\ leads[k].customer_id = Config[e.cid].customer_id
        /\ \/ leads[k].phone # NULL /\ leads[k].phone = PhoneOf(e, row)
           \/ leads[k].email # NULL /\ leads[k].email = EmailOf(e, row)

Payload(n, e, he, p, rp) ==
    [name |-> n, email |-> e, hebrew_email |-> he, phone |-> p, raw_phone |-> rp]

Payloads ==
    { Payload(<<"W">>, <<"w", "@", "x">>, NULL, NULL, <<>>),   \* last phone key holds ''
      Payload(<<"V">>, NULL, <<>>, <<"5", "8">>, NULL),        \* last email key holds ''
      Payload(<<"U">>, NULL, NULL, NULL, NULL) }               \* name only

\* a or b, for the values lead_data.get() returns
PyOr(a, b) == IF a # NULL /\ Truthy(a) THEN a ELSE b

MaxHooks == 1

\* The leads the webhook has stored: their raw_data holds no sheet_id.
FromWebhook == { k \in DOMAIN leads : leads[k].sheet_id = NullStr }

\* webhook(): name, email and phone are taken from the payload as they are
\* and inserted for customer 1, without a lookup.
Webhook(w) ==
    /\ Cardinality(FromWebhook) < MaxHooks
    /\ leads' = Append(leads, [customer_id |-> 1, name |-> w.name,
                               email |-> PyOr(w.email, w.hebrew_email),
                               phone |-> PyOr(w.phone, w.raw_phone),
                               campaign |-> NullStr, campaign_name |-> NullStr,
                               row_number |-> 0, sheet_id |-> NullStr])
    /\ last' = Idle
    /\ UNCHANGED <<campaigns, activities, sheet, clock, procs>>

HookNext ==
    \/ GrowNext
    \/ \E w \in Payloads : Webhook(w)

SpecHook == Init /\ [][HookNext]_vars

\* C28: a row counted as a duplicate has the non-empty phone or the
\* non-empty email of a lead of the campaign's tenant in the run's view.
C28_DuplicateBySameContact ==
    \A e \in Runs : \A i \in DOMAIN e.trace :
        (e.trace[i] = "duplicate" /\ ViewIsStored(e, i)) =>
            LET row == FetchedBy(e)[i]
            IN  \E k \in 1..CountsBefore(e, i).leads :
                    /\ leads[k].customer_id = Config[e.cid].customer_id
                    /\ \/ Truthy(PhoneOf(e, row)) /\ leads[k].phone = PhoneOf(e, row)
                       \/ Truthy(EmailOf(e, row)) /\ leads[k].email = EmailOf(e, row)

(***************************************************************************)
(* The scheduled job after app.py                                          *)
(***************************************************************************)
\* C29: an undisturbed run of the scheduled job that finds the per-tab map
\* app.py has stored for the campaign succeeds, and looks up no row at or
\* below the cursor the map records for the tab.
C29_PathsInteroperate ==
    \A e \in Runs :
        ( /\ e.path = "sched"
          /\ e.dist = Calm
          /\ e.pre.kind = "map"
          /\ e.pre.m # EmptyMap )
        => /\ e.result.success
           /\ \A k \in DOMAIN e.lookups :
                 e.lookups[k].row > GetCursor(e.pre, GidKey(TabOf(e)))

(***************************************************************************)
(* The cursor after overlapping runs                                       *)
(***************************************************************************)
\* The last row index of the sheet as the run of p fetched it.
LastRowOf(p) == 1 + Len(procs[p].rows)

\* C30: when the runs of app.py on the campaign have both committed, the
\* cursor stored for the tab is the larger of the last row indices of the
\* sheets they fetched.
C30_CursorIsLarger ==
    (\A p \in Procs : procs[p].pc = "done" /\ procs[p].path = "app") =>
        \A p \in Procs :
            GetCursor(campaigns[RaceCampaign].last_synced_row,
                      GidKey(GidOf(Config[RaceCampaign].sheet_url))) >= LastRowOf(p)

====
